---- MODULE Spec2Model ----
(***************************************************************************)
(* Model of the Simple-Web-App-Framework request core:                     *)
(*   web_util.py    Default headers, ResponseContainer, WebPathMap,        *)
(*                  WebPathHandler.__init_subclass__ (route registration)  *)
(*   web_server.py  WebAppHttpHandler: body acquisition, dispatch and      *)
(*                  response serialisation                                 *)
(*                                                                         *)
(* Five specifications share the variables:                                *)
(*   Spec      route registration (load time) followed by request dispatch *)
(*   SpecReg   route registration alone, invalid class statements included *)
(*   SpecHdr   Default.set_headers                                         *)
(*   SpecBody  request body acquisition of _init_response, one stream read *)
(*             per step (SpecBodyFair adds the fairness of a running       *)
(*             worker thread)                                              *)
(*   SpecConc  requests handled concurrently by worker threads, from       *)
(*             dispatch to the bytes written                               *)
(* Python strings are TLA+ strings, except in set_headers, where the       *)
(* characters matter and a string is a sequence of characters.             *)
(***************************************************************************)
EXTENDS Integers, Sequences, FiniteSets, TLC

VARIABLES
    PATHS,        \* WebPathMap.PATHS: method -> (path -> handler class | None)
    REGEX_PATHS,  \* WebPathMap.REGEX_PATHS: method -> (pattern -> handler class)
    _headers,     \* Default._headers
    phase,        \* "loading" (modules being imported), "serving" (serve_forever)
                  \* or "aborted" (an import raised)
    regError,     \* exception raised by the last class statement, or "none"
    warnings,     \* overwrite warnings printed by the last class statement
    lastNamed,    \* history: last successfully created class naming (method, path)
    resp,         \* the last request and what was written to its connection
    hdrCall,      \* the last Default.set_headers call: argument and outcome
    body,         \* the request whose body is being acquired, and the progress
    threads       \* the worker threads of ThreadingHTTPServer: each one's
                  \* request, position, objects and what it wrote

vars == <<PATHS, REGEX_PATHS, _headers, phase, regError, warnings, lastNamed,
          resp, hdrCall, body, threads>>

None == "None"

(***************************************************************************)
(* Route table (web_util.py, WebPathMap)                                   *)
(***************************************************************************)

\* Iteration order of the dict WebPathMap.PATHS (insertion order).
MethodOrder == <<"CONNECT", "DELETE", "GET", "PATCH", "POST", "PUT">>

Methods == {MethodOrder[i] : i \in 1..Len(MethodOrder)}

\* The request methods WebAppHttpHandler defines a do_<METHOD> for; for any
\* other method BaseHTTPRequestHandler answers 501 without calling into the
\* dispatcher.
DoMethods == {"GET", "HEAD", "OPTIONS", "POST", "PUT"}

Commands == Methods \cup {"HEAD", "OPTIONS"}

\* Every <METHOD>_PATHS starts as {'/': None}.
InitialPaths == [m \in Methods |-> [p \in {"/"} |-> None]]

InitialRegexPaths == [m \in Methods |-> [p \in {} |-> None]]

(***************************************************************************)
(* Inputs: handler classes, paths, requests                                *)
(***************************************************************************)

MaxMethods == 2

BoundedSeq(S, n) == UNION {[1..k -> S] : k \in 0..n}

\* Two handler classes in the style of endpoints.py: HandlerA leaves HEAD and
\* OPTIONS enabled (ExampleEndpoint01), HandlerB disables both
\* (ExampleEndpoint06) and answers 202 (as ExampleEndpoint03 does).
HandlerNames == {"HandlerA", "HandlerB"}

Paths == {"/", "/a"}
UnboundPath == "/zz"
ReqPaths == Paths \cup {UnboundPath}

\* Method tokens the classes of Spec list in METHODS: DELETE, which the server
\* has no do_ method for and which precedes GET in MethodOrder, and GET.
MethodTokens == {"DELETE", "GET"}

\* PATHS lists: no path, one path, both paths.
PathLists == {<<>>, <<"/">>, <<"/a">>, <<"/", "/a">>}
RegexLists == {<<>>, <<"^/a.*$">>}

HandlerClasses ==
    [name : HandlerNames,
     METHODS : BoundedSeq(MethodTokens, MaxMethods),
     PATHS : PathLists,
     REGEX_PATHS : RegexLists]

DISABLE_HEAD_REQUESTS(h) == h = "HandlerB"

DISABLE_OPTIONS_REQUESTS(h) == h = "HandlerB"

(***************************************************************************)
(* Route registration (web_util.py, WebPathHandler.__init_subclass__)      *)
(***************************************************************************)

\* d[k] = v on a Python dict.
DictSet(d, k, v) == [x \in (DOMAIN d) \cup {k} |-> IF x = k THEN v ELSE d[x]]

\* BindPaths without lines 231-232 and 236-237: a binding is overwritten
\* without a warning.
RECURSIVE BindPathsSilent(_, _, _, _, _, _)
BindPathsSilent(st, method, paths, i, cls, kind) ==
    IF i > Len(paths) THEN st
    ELSE IF kind = "exact"
    THEN BindPathsSilent([st EXCEPT !.P[method] = DictSet(@, paths[i], cls.name)],
                         method, paths, i + 1, cls, kind)
    ELSE BindPathsSilent([st EXCEPT !.R[method] = DictSet(@, paths[i], cls.name)],
                         method, paths, i + 1, cls, kind)

\* "for path in <paths>: if path in table: print warning; table[path] = cls",
\* on the record st = [P, R, W, err] of both tables, the warnings printed so
\* far and the exception raised; kind selects the exact or the regex table.
RECURSIVE BindPaths(_, _, _, _, _, _)
BindPaths(st, method, paths, i, cls, kind) ==
    IF i > Len(paths) THEN st
    ELSE IF kind = "exact"
    THEN BindPaths(
             [st EXCEPT !.W = IF paths[i] \in DOMAIN st.P[method]
                              THEN @ \cup {<<method, paths[i], kind>>} ELSE @,
                        !.P[method] = DictSet(@, paths[i], cls.name)],
             method, paths, i + 1, cls, kind)
    ELSE BindPaths(
             [st EXCEPT !.W = IF paths[i] \in DOMAIN st.R[method]
                              THEN @ \cup {<<method, paths[i], kind>>} ELSE @,
                        !.R[method] = DictSet(@, paths[i], cls.name)],
             method, paths, i + 1, cls, kind)

\* "for method in cls.METHODS": an unsupported token raises when it is
\* reached (the message's cls.METHOD does not exist, so the exception is an
\* AttributeError); what earlier methods bound stays bound.
RECURSIVE RegisterMethods(_, _, _)
RegisterMethods(st, cls, i) ==
    IF i > Len(cls.METHODS) THEN st
    ELSE LET method == cls.METHODS[i] IN
         IF method \notin DOMAIN st.P
         THEN [st EXCEPT !.err = "AttributeError"]
         ELSE RegisterMethods(
                  BindPaths(BindPaths(st, method, cls.PATHS, 1, cls, "exact"),
                            method, cls.REGEX_PATHS, 1, cls, "regex"),
                  cls, i + 1)

\* __init_subclass__ without lines 199-200: a class that lists no path
\* and no pattern is accepted.
InitSubclassNoPathCheck(cls) ==
    LET st == [P |-> PATHS, R |-> REGEX_PATHS, W |-> {}, err |-> "none"] IN
    IF Len(cls.METHODS) = 0 THEN [st EXCEPT !.err = "KeyError"]
    ELSE RegisterMethods(st, cls, 1)

\* __init_subclass__ on the current tables: the checks of lines 197-200, then
\* the registration loop.
InitSubclass(cls) ==
    LET st == [P |-> PATHS, R |-> REGEX_PATHS, W |-> {}, err |-> "none"] IN
    IF Len(cls.METHODS) = 0 THEN [st EXCEPT !.err = "KeyError"]
    ELSE IF Len(cls.PATHS) + Len(cls.REGEX_PATHS) = 0
         THEN [st EXCEPT !.err = "KeyError"]
         ELSE RegisterMethods(st, cls, 1)

\* x in <list>
InSeq(x, seq) == \E i \in 1..Len(seq) : seq[i] = x

\* A class statement "class X(web_util.WebPathHandler)" executed while the
\* modules are imported ("from endpoints import *"). An exception it raises
\* propagates out of the import and ends the process before serve() is
\* reached.
Register(cls) ==
    /\ phase = "loading"
    /\ \E st \in {InitSubclass(cls)} :
       /\ PATHS' = st.P
       /\ REGEX_PATHS' = st.R
       /\ warnings' = st.W
       /\ regError' = st.err
       /\ lastNamed' = IF st.err = "none"
                       THEN [m \in DOMAIN lastNamed |->
                               [p \in DOMAIN lastNamed[m] |->
                                  IF InSeq(m, cls.METHODS) /\ InSeq(p, cls.PATHS)
                                  THEN cls.name ELSE lastNamed[m][p]]]
                       ELSE lastNamed
       /\ phase' = IF st.err = "none" THEN "loading" ELSE "aborted"
    /\ UNCHANGED <<_headers, resp, hdrCall, body, threads>>

\* serve(): every module is imported and no class statement is running any
\* more; the server starts to accept requests.
StartServing ==
    /\ phase = "loading"
    /\ phase' = "serving"
    /\ regError' = "none"
    /\ warnings' = {}
    /\ UNCHANGED <<PATHS, REGEX_PATHS, _headers, lastNamed, resp, hdrCall, body,
                   threads>>

(***************************************************************************)
(* Response containers (web_util.py) and handler lifecycle                 *)
(***************************************************************************)

\* ResponseContainer(status_code=...): headers default to a copy of
\* Default._headers, the body to b''.
ResponseContainer(status) ==
    [status_code |-> status, headers |-> _headers, body |-> ""]

RESP_OK == ResponseContainer(200)
RESP_NO_CONTENT == ResponseContainer(204)
RESP_NOT_FOUND == ResponseContainer(404)
RESP_BAD_METHOD == ResponseContainer(405)

\* self.pending_resp = None
NoneResp == [status_code |-> 0, headers |-> <<>>, body |-> ""]

\* WebPathHandler.handle() of each handler class on its copy of the response:
\* HandlerA is ExampleEndpoint01._handle, HandlerB sets a status as
\* ExampleEndpoint03._handle does, HandlerC overrides handle() and returns
\* None.
Handle(h, response) ==
    IF h = "HandlerC" THEN NoneResp
    ELSE IF h = "HandlerA"
    THEN [response EXCEPT !.headers = DictSet(@, "Content-Type", "text/plain"),
                          !.body = "Hello world!"]
    ELSE [response EXCEPT !.status_code = 202,
                          !.headers = DictSet(@, "Content-Type", "application/json"),
                          !.body = "{}"]

(***************************************************************************)
(* Dispatcher (web_server.py, _build_and_send_response)                    *)
(***************************************************************************)

\* Result of the dispatch loop: the pending response (None if no iteration
\* set one), the handler class that was instantiated and invoked, and the
\* exception that ended the dispatch.
Pending(r, h, e) == [pending_resp |-> r, invoked |-> h, error |-> e]

\* The Allow value of line 140-143: "<method>, " appended for each method
\* whose table holds the path, in MethodOrder, then the last two characters
\* cut off.
RECURSIVE AllowFrom(_, _)
AllowFrom(i, primary_path) ==
    IF i > Len(MethodOrder) THEN ""
    ELSE (IF primary_path \in DOMAIN PATHS[MethodOrder[i]]
          THEN MethodOrder[i] \o ", " ELSE "")
         \o AllowFrom(i + 1, primary_path)

CutLastTwo(s) == IF Len(s) <= 2 THEN "" ELSE SubSeq(s, 1, Len(s) - 2)

\* The body of the loop for one matching method m (lines 133-151).
Matched(m, command, primary_path) ==
    LET path_handler == PATHS[m][primary_path] IN
    IF command \in {"HEAD", "OPTIONS"} /\ path_handler = None
    THEN \* None.DISABLE_HEAD_REQUESTS / None.DISABLE_OPTIONS_REQUESTS
         Pending(NoneResp, None, "AttributeError")
    ELSE IF \/ command = "HEAD" /\ DISABLE_HEAD_REQUESTS(path_handler)
            \/ command = "OPTIONS" /\ DISABLE_OPTIONS_REQUESTS(path_handler)
    THEN Pending(RESP_BAD_METHOD, None, "none")
    ELSE IF command = "OPTIONS"
    THEN Pending([RESP_NO_CONTENT EXCEPT !.headers =
                     DictSet(@, "Allow", CutLastTwo(AllowFrom(1, primary_path)))],
                 None, "none")
    ELSE IF path_handler = None
    THEN Pending(RESP_OK, None, "none")
    ELSE IF Handle(path_handler, RESP_OK) = NoneResp
    THEN \* assert self.pending_resp is not None
         Pending(NoneResp, path_handler, "AssertionError")
    ELSE Pending(Handle(path_handler, RESP_OK), path_handler, "none")

\* "for m in self.__class__.PATHS" from the i-th method on, with the pending
\* response set so far.
RECURSIVE DispatchFrom(_, _, _, _)
DispatchFrom(i, command, primary_path, pending) ==
    IF i > Len(MethodOrder) THEN Pending(pending, None, "none")
    ELSE LET m == MethodOrder[i] IN
         IF /\ m = command \/ command \in {"HEAD", "OPTIONS"}
            /\ primary_path \in DOMAIN PATHS[m]
         THEN Matched(m, command, primary_path)
         ELSE IF primary_path \in DOMAIN PATHS[m]
         THEN DispatchFrom(i + 1, command, primary_path, RESP_BAD_METHOD)
         ELSE DispatchFrom(i + 1, command, primary_path, pending)

\* Dispatch without lines 156-157, the constructor's default status taken
\* for the fallback: an unmatched request ends as a bare 200.
DispatchNoFallback(command, primary_path) ==
    LET d == DispatchFrom(1, command, primary_path, NoneResp) IN
    IF d.error = "none" /\ d.pending_resp = NoneResp
    THEN [d EXCEPT !.pending_resp = RESP_OK]
    ELSE d

\* Lines 156-157: a dispatch that set no response ends in the default 404.
Dispatch(command, primary_path) ==
    LET d == DispatchFrom(1, command, primary_path, NoneResp) IN
    IF d.error = "none" /\ d.pending_resp = NoneResp
    THEN [d EXCEPT !.pending_resp = RESP_NOT_FOUND]
    ELSE d

\* _send_pending_response: what goes onto the connection.
SendPendingResponse(command, pending_resp) ==
    [status_code |-> pending_resp.status_code,
     headers |-> IF Len(pending_resp.body) > 0
                 THEN DictSet(pending_resp.headers, "Content-Length",
                              ToString(Len(pending_resp.body)))
                 ELSE pending_resp.headers,
     body |-> IF command \notin {"HEAD", "OPTIONS"} /\ Len(pending_resp.body) > 0
              THEN pending_resp.body ELSE ""]

\* Nothing was written to the connection.
NoWire == [status_code |-> 0, headers |-> <<>>, body |-> ""]

\* BaseHTTPRequestHandler.send_error(501) for a method without do_<METHOD>.
NotImplemented == [status_code |-> 501, headers |-> <<>>, body |-> ""]

\* One request without a body, from the request line to the response.
Serve(command, path) ==
    IF command \notin DoMethods
    THEN [command |-> command, path |-> path, outcome |-> "sent",
          wire |-> NotImplemented, invoked |-> None, error |-> "none"]
    ELSE LET d == Dispatch(command, path) IN
         IF d.error # "none"
         THEN [command |-> command, path |-> path, outcome |-> "fault",
               wire |-> NoWire, invoked |-> d.invoked, error |-> d.error]
         ELSE [command |-> command, path |-> path, outcome |-> "sent",
               wire |-> SendPendingResponse(command, d.pending_resp),
               invoked |-> d.invoked, error |-> "none"]

NoRequest == [command |-> "none", path |-> "none", outcome |-> "none",
              wire |-> NoWire, invoked |-> None, error |-> "none"]

HandleRequest(command, path) ==
    /\ phase = "serving"
    /\ resp' = Serve(command, path)
    /\ UNCHANGED <<PATHS, REGEX_PATHS, _headers, phase, regError, warnings,
                   lastNamed, hdrCall, body, threads>>

(***************************************************************************)
(* Specification of registration and dispatch                              *)
(***************************************************************************)

\* No request body is being acquired.
NoBody ==
    [pc |-> "idle", command |-> "none", cl |-> [kind |-> "absent", n |-> 0],
     te_chunked |-> FALSE, encoding |-> "absent", sent |-> <<>>,
     framed |-> FALSE, chunks |-> <<>>, trailing |-> <<>>, rfile |-> <<>>,
     content_len |-> 0, chunked |-> FALSE, compression |-> None,
     req_payload |-> <<>>, error |-> "none"]

\* The default headers endpoints.py sets before it declares its handlers.
EndpointHeaders ==
    [k \in {"X-Example-Default-Header", "Connection"} |->
        IF k = "Connection" THEN "close" ELSE "SeanP"]

NoCall == [arg |-> <<>>, result |-> "none"]

MaxThreads == 2

Threads == 1..MaxThreads

\* A reference to a headers dict: Default._headers (owner 0), or one of the
\* two dicts a worker thread creates for its request: the one of the
\* RESP_OK() container ("base") and the one of the container the handler or
\* the dispatcher fills ("resp").
DefaultRef == [owner |-> 0, slot |-> "default"]
NoRef == [owner |-> 0, slot |-> "none"]

\* A container whose headers field is a reference.
NonePending == [status_code |-> 0, headers |-> NoRef, body |-> ""]

\* A worker thread without a request.
IdleThread ==
    [pc |-> "idle", command |-> "none", path |-> "none", h |-> None,
     objs |-> [base |-> <<>>, resp |-> <<>>],
     base |-> NonePending, response |-> NonePending,
     pending_resp |-> NonePending, error |-> "none", wire |-> <<>>]

NoThreads == [t \in Threads |-> IdleThread]

Init ==
    /\ PATHS = InitialPaths
    /\ REGEX_PATHS = InitialRegexPaths
    /\ _headers = EndpointHeaders
    /\ phase = "loading"
    /\ regError = "none"
    /\ warnings = {}
    /\ lastNamed = [m \in Methods |-> [p \in Paths |-> "none"]]
    /\ resp = NoRequest
    /\ hdrCall = NoCall
    /\ body = NoBody
    /\ threads = NoThreads

Next ==
    \/ phase = "loading" /\ \E cls \in HandlerClasses : Register(cls)
    \/ StartServing
    \/ \E command \in Commands, path \in ReqPaths : HandleRequest(command, path)

Spec == Init /\ [][Next]_vars

(***************************************************************************)
(* Properties of registration and dispatch (Spec)                          *)
(***************************************************************************)

\* The methods whose exact-path table holds the path, in MethodOrder.
MethodsOf(path) ==
    SelectSeq(MethodOrder, LAMBDA m : path \in DOMAIN PATHS[m])

\* The last request was answered with this status and no handler ran.
Answered(status) ==
    /\ resp.outcome = "sent"
    /\ resp.wire.status_code = status
    /\ resp.invoked = None

\* C1: a request whose (method, path) is bound to a handler class is
\* dispatched to exactly that handler and is never answered 404, for each of
\* the six route-table methods.
C1_BoundRequestReachesHandler ==
    (/\ resp.command \in Methods
     /\ resp.path \in DOMAIN PATHS[resp.command]
     /\ PATHS[resp.command][resp.path] # None)
    => /\ resp.outcome = "sent"
       /\ resp.invoked = PATHS[resp.command][resp.path]
       /\ resp.wire.status_code # 404

\* C2: a path present under exactly one method M answers every other
\* route-table method with 405, without invoking a handler.
C2_OtherMethodGets405 ==
    \A M \in Methods :
        (/\ MethodsOf(resp.path) = <<M>>
         /\ resp.command \in Methods \ {M})
        => Answered(405)

\* C3: a request with a method the server dispatches, to a path no method's
\* table holds, is answered 404 with the default headers and an empty body,
\* and no handler runs.
C3_UnboundPathIs404 ==
    (/\ resp.command \in DoMethods
     /\ MethodsOf(resp.path) = <<>>)
    => /\ Answered(404)
       /\ resp.wire.headers = _headers
       /\ resp.wire.body = ""

C3_Witness ==
    /\ resp.command = "POST"
    /\ resp.path = UnboundPath
    /\ Answered(404)
    /\ \E m \in Methods : "/a" \in DOMAIN PATHS[m]

\* ', '.join(methods)
RECURSIVE Join(_)
Join(methods) ==
    IF Len(methods) = 0 THEN ""
    ELSE IF Len(methods) = 1 THEN methods[1]
    ELSE methods[1] \o ", " \o Join(Tail(methods))

\* C4: OPTIONS to a path present under some method, when the matched entry
\* (the first holding the path, possibly the no-handler sentinel) has not
\* disabled OPTIONS, is answered 204 without invoking a handler, the Allow
\* header listing exactly the methods holding the path.
C4_OptionsListsAllow ==
    (/\ resp.command = "OPTIONS"
     /\ MethodsOf(resp.path) # <<>>
     /\ LET entry == PATHS[MethodsOf(resp.path)[1]][resp.path] IN
        entry = None \/ ~DISABLE_OPTIONS_REQUESTS(entry))
    => /\ Answered(204)
       /\ "Allow" \in DOMAIN resp.wire.headers
       /\ resp.wire.headers["Allow"] = Join(MethodsOf(resp.path))

\* C5: HEAD to a path bound under GET to a handler that has not disabled
\* HEAD gives the status and headers that handler gives a GET, and no body.
C5_HeadMirrorsGet ==
    (/\ resp.command = "HEAD"
     /\ resp.path \in DOMAIN PATHS["GET"]
     /\ PATHS["GET"][resp.path] # None
     /\ ~DISABLE_HEAD_REQUESTS(PATHS["GET"][resp.path]))
    => LET get == SendPendingResponse("GET",
                      Handle(PATHS["GET"][resp.path], RESP_OK)) IN
       /\ resp.outcome = "sent"
       /\ resp.wire.status_code = get.status_code
       /\ resp.wire.headers = get.headers
       /\ resp.wire.body = ""

\* C6: when the handler bound to the path under GET disables HEAD, HEAD is
\* answered 405 and no handler runs; when it disables OPTIONS, OPTIONS is
\* answered 405 without an Allow header; whatever else the path is bound to.
C6_DisabledMethodIs405 ==
    (/\ resp.path \in DOMAIN PATHS["GET"]
     /\ PATHS["GET"][resp.path] # None)
    => /\ (resp.command = "HEAD"
             /\ DISABLE_HEAD_REQUESTS(PATHS["GET"][resp.path]))
          => Answered(405)
       /\ (resp.command = "OPTIONS"
             /\ DISABLE_OPTIONS_REQUESTS(PATHS["GET"][resp.path]))
          => /\ Answered(405)
             /\ "Allow" \notin DOMAIN resp.wire.headers

\* C7: each (method, path) is bound to the handler of the last registration
\* that named it, every request with that method and path invokes that
\* handler, and a registration leaves the pairs it does not name as bound
\* as they were.
C7_LastRegistrationWins ==
    /\ [](\A m \in Methods, p \in Paths :
            lastNamed[m][p] # "none"
            => /\ p \in DOMAIN PATHS[m]
               /\ PATHS[m][p] = lastNamed[m][p]
               /\ (resp.command = m /\ resp.path = p)
                  => resp.invoked = lastNamed[m][p])
    /\ [][\A m \in Methods, p \in Paths :
            (regError' = "none" /\ lastNamed'[m][p] = lastNamed[m][p])
            => /\ (p \in DOMAIN PATHS'[m]) = (p \in DOMAIN PATHS[m])
               /\ p \in DOMAIN PATHS[m] => PATHS'[m][p] = PATHS[m][p]]_vars

\* C11: a GET, HEAD, POST or PUT request whose matched entry (for HEAD the
\* first entry holding the path) is the no-handler sentinel is answered 200
\* with the default headers and an empty body; no handler runs and nothing
\* fails.
C11_SentinelIsBare200 ==
    (/\ resp.command \in {"GET", "HEAD", "POST", "PUT"}
     /\ MethodsOf(resp.path) # <<>>
     /\ LET m == IF resp.command = "HEAD" THEN MethodsOf(resp.path)[1]
                 ELSE resp.command
        IN  /\ resp.path \in DOMAIN PATHS[m]
            /\ PATHS[m][resp.path] = None)
    => /\ Answered(200)
       /\ resp.error = "none"
       /\ resp.wire.headers = _headers
       /\ resp.wire.body = ""

\* C14: HEAD to a path that some method's table holds but the GET table does
\* not is answered 405 and no handler runs.
C14_HeadNeedsGetBinding ==
    (/\ resp.command = "HEAD"
     /\ MethodsOf(resp.path) # <<>>
     /\ resp.path \notin DOMAIN PATHS["GET"])
    => Answered(405)

\* The request paths a registered regular expression denotes: the one
\* pattern the classes register, "^/a.*$", matches every path that starts
\* with "/a".
RegexMatches(pattern, path) ==
    /\ pattern = "^/a.*$"
    /\ Len(path) >= 2
    /\ SubSeq(path, 1, 2) = "/a"

\* Some pattern of the method's regex-path table matches the path.
RegexBound(m, path) ==
    \E pattern \in DOMAIN REGEX_PATHS[m] : RegexMatches(pattern, path)

\* The last request, if its method is one of these, was answered from the
\* exact-path tables alone: a handler that ran is bound to the path in an
\* exact-path table; a path that only a regex-path table covers is answered
\* 404 and no handler runs; where the exact-path table of the request's
\* method holds the path and a pattern of its regex-path table matches too,
\* no handler other than the exact one runs.
AnsweredFromExactTables(commands) ==
    resp.command \in commands
    => /\ resp.invoked # None
          => \E m \in Methods : /\ resp.path \in DOMAIN PATHS[m]
                                /\ PATHS[m][resp.path] = resp.invoked
       /\ (/\ MethodsOf(resp.path) = <<>>
           /\ \E m \in Methods : RegexBound(m, resp.path))
          => Answered(404)
       /\ (/\ resp.command \in Methods
           /\ resp.path \in DOMAIN PATHS[resp.command]
           /\ RegexBound(resp.command, resp.path))
          => resp.invoked \in {None, PATHS[resp.command][resp.path]}

\* C21: regex-path registrations never influence dispatch. For every request
\* the answer is determined by the exact-path tables: a request whose path is
\* bound only through REGEX_PATHS invokes no handler and is answered 404, and
\* an exact-path binding is never overridden by a regex binding.
C21_RegexNeverInfluencesDispatch == AnsweredFromExactTables(Commands)

\* C21 for the request methods the server has a do_ method for (GET, HEAD,
\* OPTIONS, POST, PUT): the answer is determined by the exact-path tables.
C21_RegexNeverInfluencesDispatched == AnsweredFromExactTables(DoMethods)

\* GET /a was answered 404 while only the GET regex-path table covers /a.
C21_Witness ==
    /\ resp.command = "GET"
    /\ resp.path = "/a"
    /\ MethodsOf("/a") = <<>>
    /\ RegexBound("GET", "/a")
    /\ REGEX_PATHS["GET"]["^/a.*$"] \in HandlerNames
    /\ Answered(404)

(***************************************************************************)
(* Specification of route registration alone (SpecReg): class statements   *)
(* whose METHODS may hold an unsupported token and whose PATHS may repeat  *)
(* a path.                                                                 *)
(***************************************************************************)

\* METHODS lists: empty, supported tokens, a repeated token, and the
\* unsupported token BOGUS alone, first, and after one or two supported ones.
RegMethodLists ==
    {<<>>, <<"GET">>, <<"POST">>, <<"GET", "POST">>, <<"GET", "GET">>,
     <<"BOGUS">>, <<"BOGUS", "GET">>, <<"GET", "BOGUS">>,
     <<"GET", "POST", "BOGUS">>}

RegPathLists == PathLists \cup {<<"/a", "/a">>}

RegClasses ==
    [name : HandlerNames,
     METHODS : RegMethodLists,
     PATHS : RegPathLists,
     REGEX_PATHS : RegexLists]

NextReg == phase = "loading" /\ \E cls \in RegClasses : Register(cls)

SpecReg == Init /\ [][NextReg]_vars

\* The three ways a class statement is invalid.
Invalid(cls) ==
    \/ Len(cls.METHODS) = 0
    \/ Len(cls.PATHS) + Len(cls.REGEX_PATHS) = 0
    \/ \E i \in 1..Len(cls.METHODS) : cls.METHODS[i] \notin Methods

\* C13: whatever the route tables hold, a class statement raises if its
\* METHODS is empty, if it lists no path and no pattern, or if a token of its
\* METHODS is not a route-table method, and it raises in no other case; a
\* class statement that raised has ended the import.
C13_InvalidClassFailsToRegister ==
    /\ (regError # "none") <=> (phase = "aborted")
    /\ phase = "loading"
       => \A cls \in RegClasses :
             (InitSubclass(cls).err # "none") <=> Invalid(cls)

\* A class listing GET and then the unsupported token has ended the import.
C13_Witness ==
    /\ phase = "aborted"
    /\ regError = "AttributeError"
    /\ "/a" \in DOMAIN PATHS["GET"]
    /\ "/a" \notin DOMAIN PATHS["POST"]

\* The number of METHODS entries a class statement registers before it
\* returns or raises.
Reached(cls) ==
    IF Len(cls.METHODS) = 0 \/ Len(cls.PATHS) + Len(cls.REGEX_PATHS) = 0 THEN 0
    ELSE IF \E i \in 1..Len(cls.METHODS) : cls.METHODS[i] \notin Methods
    THEN (CHOOSE i \in 1..Len(cls.METHODS) :
             /\ cls.METHODS[i] \notin Methods
             /\ \A k \in 1..(i - 1) : cls.METHODS[k] \in Methods) - 1
    ELSE Len(cls.METHODS)

\* The pairs a class statement registers although they are present: in the
\* table before the statement, or registered earlier by the statement itself
\* (a repeated method or a repeated path).
PresentPairs(cls, paths, table, kind) ==
    {<<cls.METHODS[ij[1]], paths[ij[2]], kind>> :
        ij \in {x \in (1..Reached(cls)) \X (1..Len(paths)) :
                  \/ paths[x[2]] \in DOMAIN table[cls.METHODS[x[1]]]
                  \/ \E i \in 1..(x[1] - 1) : cls.METHODS[i] = cls.METHODS[x[1]]
                  \/ \E j \in 1..(x[2] - 1) : paths[j] = paths[x[2]]}}

\* C18: whatever the tables hold, a class statement prints a warning for
\* exactly the pairs it registers while they are present (bound to a handler
\* or to the sentinel), binds every pair it registers to the class, and no
\* registration removes a pair from a table.
C18_OverwriteWarns ==
    /\ [](phase = "loading"
          => \A cls \in RegClasses :
                LET st == InitSubclass(cls) IN
                /\ st.W = PresentPairs(cls, cls.PATHS, PATHS, "exact")
                           \cup PresentPairs(cls, cls.REGEX_PATHS, REGEX_PATHS,
                                             "regex")
                /\ \A i \in 1..Reached(cls) :
                      /\ \A j \in 1..Len(cls.PATHS) :
                            st.P[cls.METHODS[i]][cls.PATHS[j]] = cls.name
                      /\ \A j \in 1..Len(cls.REGEX_PATHS) :
                            st.R[cls.METHODS[i]][cls.REGEX_PATHS[j]] = cls.name)
    /\ [][\A m \in Methods :
            /\ DOMAIN PATHS[m] \subseteq DOMAIN PATHS'[m]
            /\ DOMAIN REGEX_PATHS[m] \subseteq DOMAIN REGEX_PATHS'[m]]_vars

\* HandlerA has taken over the sentinel of GET '/' with a warning and bound
\* POST '/a', which was not present, without one.
C18_Witness ==
    /\ regError = "none"
    /\ warnings = {<<"GET", "/", "exact">>}
    /\ PATHS["GET"]["/"] = "HandlerA"
    /\ "/a" \in DOMAIN PATHS["GET"]
    /\ PATHS["GET"]["/a"] = "HandlerA"

\* C20: a class statement that raises leaves both route tables as they were
\* before it.
C20_FailedRegistrationIsAtomic ==
    [][regError' # "none"
         => PATHS' = PATHS /\ REGEX_PATHS' = REGEX_PATHS]_vars

(***************************************************************************)
(* Default headers (web_util.py, Default.set_headers)                      *)
(*                                                                         *)
(* Here a string is a sequence of characters; a character is "a", "b" or   *)
(* the name of a special character.                                        *)
(***************************************************************************)

\* bad_chars = ' :\r\n\t\b\0'
bad_chars == <<"SP", "COLON", "CR", "LF", "TAB", "BS", "NUL">>

MaxHdrs == 2

\* Header names: two valid ones, and one for each character of bad_chars,
\* alone or after a valid character.
HeaderKeys ==
    {<<"a">>, <<"b">>}
    \cup {<<bad_chars[i]>> : i \in {1, 2, 3, 4}}
    \cup {<<"a", bad_chars[i]>> : i \in {5, 6, 7}}

HeaderValues == {<<"a">>, <<"a", "LF", "b">>, <<"CR", "LF">>}

\* A dict literal: up to MaxHdrs items <<key, value>> with distinct keys, in
\* insertion order.
HeaderDicts ==
    {items \in BoundedSeq(HeaderKeys \X HeaderValues, MaxHdrs) :
        \A i, j \in 1..Len(items) : i # j => items[i][1] # items[j][1]}

\* str.replace(old, new) for single characters.
Replace(str, old, new) ==
    [i \in 1..Len(str) |-> IF str[i] = old THEN new ELSE str[i]]

\* The loop of lines 45-52 from the i-th item on; checked is the local dict
\* built so far.
RECURSIVE CheckHeaders(_, _, _)
CheckHeaders(items, i, checked) ==
    IF i > Len(items) THEN [error |-> "none", headers |-> checked]
    ELSE LET header == items[i][1]
             header_value == items[i][2]
         IN  IF \E b \in 1..Len(bad_chars) : InSeq(bad_chars[b], header)
             THEN [error |-> "AssertionError", headers |-> checked]
             ELSE CheckHeaders(items, i + 1,
                      DictSet(checked, header,
                              Replace(Replace(header_value, "LF", "SP"),
                                      "CR", "SP")))

\* set_headers that stores each header as soon as it is checked, instead of
\* building a local dict and assigning it at the end.
SetHeadersEager(items) ==
    LET r == CheckHeaders(items, 1, <<>>) IN
    [error |-> r.error,
     headers |-> IF r.error = "none" THEN r.headers
                 ELSE [k \in (DOMAIN _headers) \cup (DOMAIN r.headers) |->
                          IF k \in DOMAIN r.headers THEN r.headers[k]
                          ELSE _headers[k]]]

\* Default.set_headers(headers): the exception raised and the new value of
\* Default._headers (assigned at line 54, after every item has passed).
SetHeadersResult(items) ==
    LET r == CheckHeaders(items, 1, <<>>) IN
    [error |-> r.error,
     headers |-> IF r.error = "none" THEN r.headers ELSE _headers]

\* web_util.Default.set_headers({...}) at module level, as endpoints.py calls
\* it; an AssertionError ends the import and with it the process.
SetHeaders(items) ==
    /\ phase = "loading"
    /\ \E r \in {SetHeadersResult(items)} :
       /\ _headers' = r.headers
       /\ hdrCall' = [arg |-> items, result |-> IF r.error = "none" THEN "ok"
                                                ELSE r.error]
       /\ phase' = IF r.error = "none" THEN "loading" ELSE "aborted"
    /\ UNCHANGED <<PATHS, REGEX_PATHS, regError, warnings, lastNamed, resp, body,
                   threads>>

\* Default._headers = {} when web_util is imported.
InitHdr ==
    /\ PATHS = InitialPaths
    /\ REGEX_PATHS = InitialRegexPaths
    /\ _headers = <<>>
    /\ phase = "loading"
    /\ regError = "none"
    /\ warnings = {}
    /\ lastNamed = [m \in Methods |-> [p \in Paths |-> "none"]]
    /\ resp = NoRequest
    /\ hdrCall = NoCall
    /\ body = NoBody
    /\ threads = NoThreads

NextHdr ==
    \/ phase = "loading" /\ \E items \in HeaderDicts : SetHeaders(items)
    \/ StartServing

SpecHdr == InitHdr /\ [][NextHdr]_vars

IsBadChar(c) == c \in {"SP", "COLON", "CR", "LF", "TAB", "NUL"}

\* C10: set_headers raises for every mapping with a space, colon, CR, LF,
\* tab or null in a key, which ends the import before serving starts; a call
\* that raises leaves Default._headers as it was; and no key of
\* Default._headers ever holds one of these characters, no value a CR or LF.
C10_BadHeaderRejected ==
    /\ []((\E i \in 1..Len(hdrCall.arg) :
             \E n \in 1..Len(hdrCall.arg[i][1]) :
                IsBadChar(hdrCall.arg[i][1][n]))
          => hdrCall.result = "AssertionError" /\ phase = "aborted")
    /\ [][hdrCall'.result = "AssertionError" => _headers' = _headers]_vars
    /\ [](\A k \in DOMAIN _headers :
            /\ \A n \in 1..Len(k) : ~IsBadChar(k[n])
            /\ \A n \in 1..Len(_headers[k]) : _headers[k][n] \notin {"CR", "LF"})

C10_Witness ==
    /\ hdrCall.result = "AssertionError"
    /\ Len(hdrCall.arg) = 2
    /\ hdrCall.arg[1][1] = <<"a">>
    /\ DOMAIN _headers = {<<"b">>}

(***************************************************************************)
(* Request body acquisition (web_server.py, _init_response)                *)
(*                                                                         *)
(* A byte is "z", "GZ" (the start of a gzip member), "CR", "LF" or a       *)
(* hexadecimal digit; a byte string is a sequence of bytes.                *)
(***************************************************************************)

MaxLen == 3
MaxChunk == 2
MaxChunks == 2

HexDigits == <<"0", "1", "2", "3", "4", "5", "6", "7",
               "8", "9", "a", "b", "c", "d", "e", "f">>

Min(a, b) == IF a < b THEN a ELSE b

\* --- what the client sends ---

\* Lower-case hexadecimal numeral of n.
RECURSIVE ToHex(_)
ToHex(n) ==
    IF n < 16 THEN <<HexDigits[n + 1]>>
    ELSE ToHex(n \div 16) \o <<HexDigits[(n % 16) + 1]>>

\* The payload of a chunk of n bytes: it holds a line feed and a digit, which
\* a decoder must not take for framing.
ChunkPattern == <<"GZ", "LF", "0", "z">>
ChunkData(n) == [i \in 1..n |-> ChunkPattern[((i - 1) % 4) + 1]]

RECURSIVE Concat(_)
Concat(seqs) == IF seqs = <<>> THEN <<>> ELSE Head(seqs) \o Concat(Tail(seqs))

\* Chunked transfer coding of a list of non-empty chunks, closed by the
\* zero-size chunk.
EncodeChunk(data) == ToHex(Len(data)) \o <<"CR", "LF">> \o data \o <<"CR", "LF">>
EncodeChunked(chunks) ==
    Concat([i \in 1..Len(chunks) |-> EncodeChunk(chunks[i])])
    \o <<"0", "CR", "LF", "CR", "LF">>

ChunkLists ==
    {[i \in 1..Len(sizes) |-> ChunkData(sizes[i])] :
        sizes \in BoundedSeq(1..MaxChunk, MaxChunks)}

\* What is on the connection after the request headers: a chunked body,
\* alone or followed by another byte (framed), or up to MaxLen arbitrary
\* bytes; then the client closes its side.
Streams ==
    {[framed |-> TRUE, chunks |-> c, trailing |-> t,
      sent |-> EncodeChunked(c) \o t] :
        c \in ChunkLists, t \in {<<>>, <<"z">>}}
    \cup
    {[framed |-> FALSE, chunks |-> <<>>, trailing |-> <<>>, sent |-> b] :
        b \in BoundedSeq({"z", "GZ"}, MaxLen)}

\* The Content-Length request header: absent, not a number, or a number.
ContentLengths ==
    {[kind |-> "absent", n |-> 0], [kind |-> "bad", n |-> 0]}
    \cup {[kind |-> "num", n |-> n] : n \in -1..MaxLen}

\* The Content-Encoding request header.
Encodings == {"absent", "gzip", "br"}

COMPRESSION_SCHEMES == {"gzip", "x-gzip", "compress", "deflate", "br"}

BodyCommands == {"GET", "POST", "PUT"}

\* --- the stream primitives ---

\* rfile.readline(): through the first line feed, or to the end of the
\* stream.
RECURSIVE LineLen(_, _)
LineLen(stream, i) ==
    IF i > Len(stream) THEN Len(stream)
    ELSE IF stream[i] = "LF" THEN i
    ELSE LineLen(stream, i + 1)

\* bytes.strip() of a line: leading and trailing CR and LF removed.
RECURSIVE Strip(_)
Strip(line) ==
    IF line = <<>> THEN <<>>
    ELSE IF Head(line) \in {"CR", "LF"} THEN Strip(Tail(line))
    ELSE IF line[Len(line)] \in {"CR", "LF"}
         THEN Strip(SubSeq(line, 1, Len(line) - 1))
    ELSE line

HexValue(digit) == CHOOSE v \in 0..15 : HexDigits[v + 1] = digit

IsHex(str) ==
    /\ str # <<>>
    /\ \A i \in 1..Len(str) : \E v \in 1..16 : HexDigits[v] = str[i]

\* int(str, 16) of a string of hexadecimal digits.
RECURSIVE ParseHex(_)
ParseHex(str) ==
    IF Len(str) = 1 THEN HexValue(str[1])
    ELSE 16 * ParseHex(SubSeq(str, 1, Len(str) - 1)) + HexValue(str[Len(str)])

\* gzip.decompress(data): empty input gives empty output, input that starts
\* a gzip member gives the member's content (here: what follows the start
\* byte), anything else raises BadGzipFile.
GunzipOk(data) == data = <<>> \/ Head(data) = "GZ"
Gunzip(data) == IF data = <<>> THEN <<>> ELSE Tail(data)

\* --- _init_response, one stream read per step ---

BodyUnchanged ==
    UNCHANGED <<PATHS, REGEX_PATHS, _headers, phase, regError, warnings,
                lastNamed, resp, hdrCall, threads>>

\* Lines 45-77: the two scans of the request headers and the choice of how
\* the body is acquired.
ScanResult(b) ==
    LET has_content_len_hdr == b.cl.kind = "num"
        content_len == IF b.cl.kind = "num" THEN b.cl.n ELSE 0
        compression == IF b.encoding \in COMPRESSION_SCHEMES
                       THEN b.encoding ELSE None
    IN  IF b.command \in {"POST", "PUT"} \/ has_content_len_hdr
        THEN [b EXCEPT !.content_len = content_len,
                       !.compression = compression,
                       !.chunked = b.te_chunked,
                       !.pc = IF content_len > 0 THEN "length"
                              ELSE IF b.te_chunked THEN "chunks"
                              ELSE "decode"]
        ELSE [b EXCEPT !.pc = "done"]

\* ScanHeaders without the try/except of lines 49-53 and 63-66: int() of a
\* Content-Length that is no number raises ValueError out of the handler.
ScanHeadersUnguarded ==
    /\ body.pc = "start"
    /\ body' = IF body.cl.kind = "bad"
               THEN [body EXCEPT !.pc = "fault", !.error = "ValueError"]
               ELSE ScanResult(body)
    /\ BodyUnchanged

ScanHeaders ==
    /\ body.pc = "start"
    /\ body' = ScanResult(body)
    /\ BodyUnchanged

\* Lines 78-82, one rfile.read(content_len): it returns k >= 1 bytes, as many
\* as the stream hands over at once and at most content_len, or b'' when
\* content_len is 0 or the stream is exhausted, which ends the loop.
ReadSizes(b) ==
    IF b.content_len = 0 \/ b.rfile = <<>> THEN {0}
    ELSE 1..Min(b.content_len, Len(b.rfile))

ReadLengthResult(b, k) ==
    IF k = 0 THEN [b EXCEPT !.pc = "decode"]
    ELSE [b EXCEPT !.req_payload = @ \o SubSeq(b.rfile, 1, k),
                   !.content_len = @ - k,
                   !.rfile = SubSeq(@, k + 1, Len(@))]

ReadLength(k) ==
    /\ body.pc = "length"
    /\ k \in ReadSizes(body)
    /\ body' = ReadLengthResult(body, k)
    /\ BodyUnchanged

\* The stream after n bytes were read from it (fewer at its end).
Skip(stream, n) == SubSeq(stream, Min(n, Len(stream)) + 1, Len(stream))

\* ReadChunk without line 89: the chunk's CR LF is left in the stream.
ReadChunkNoTail ==
    /\ body.pc = "chunks"
    /\ LET n == LineLen(body.rfile, 1)
           chunk_sz == Strip(SubSeq(body.rfile, 1, n))
           rest == Skip(body.rfile, n)
       IN  IF ~IsHex(chunk_sz)
           THEN body' = [body EXCEPT !.pc = "fault", !.error = "ValueError",
                                     !.rfile = rest]
           ELSE body' = [body EXCEPT
                   !.req_payload =
                       @ \o SubSeq(rest, 1, Min(ParseHex(chunk_sz), Len(rest))),
                   !.rfile = Skip(rest, ParseHex(chunk_sz)),
                   !.pc = IF ParseHex(chunk_sz) = 0 THEN "decode" ELSE "chunks"]
    /\ BodyUnchanged

\* Lines 86-91, one iteration of the chunk loop: the size line, that many
\* bytes (the buffered rfile returns them all unless the stream ends), the
\* two bytes after them.
ReadChunkResult(b) ==
    LET n == LineLen(b.rfile, 1)
        chunk_sz == Strip(SubSeq(b.rfile, 1, n))
        rest == Skip(b.rfile, n)
    IN  IF ~IsHex(chunk_sz)
        THEN [b EXCEPT !.pc = "fault", !.error = "ValueError", !.rfile = rest]
        ELSE [b EXCEPT
                !.req_payload =
                    @ \o SubSeq(rest, 1, Min(ParseHex(chunk_sz), Len(rest))),
                !.rfile = Skip(Skip(rest, ParseHex(chunk_sz)), 2),
                !.pc = IF ParseHex(chunk_sz) = 0 THEN "decode" ELSE "chunks"]

ReadChunk ==
    /\ body.pc = "chunks"
    /\ body' = ReadChunkResult(body)
    /\ BodyUnchanged

\* Lines 93-96: a recognised Content-Encoding that names gzip is undone.
DecompressResult(b) ==
    IF b.compression \in {"gzip", "x-gzip"}
    THEN IF GunzipOk(b.req_payload)
         THEN [b EXCEPT !.req_payload = Gunzip(@), !.pc = "done"]
         ELSE [b EXCEPT !.pc = "fault", !.error = "BadGzipFile"]
    ELSE [b EXCEPT !.pc = "done"]

Decompress ==
    /\ body.pc = "decode"
    /\ body' = DecompressResult(body)
    /\ BodyUnchanged

\* Every state _init_response can be in one step after b.
Successors(b) ==
    IF b.pc = "start" THEN {ScanResult(b)}
    ELSE IF b.pc = "length" THEN {ReadLengthResult(b, k) : k \in ReadSizes(b)}
    ELSE IF b.pc = "chunks" THEN {ReadChunkResult(b)}
    ELSE IF b.pc = "decode" THEN {DecompressResult(b)}
    ELSE {}

\* A request whose headers were parsed: self.req_payload = b'' (line 55) and
\* the body still in the stream.
InitBody ==
    /\ PATHS = InitialPaths
    /\ REGEX_PATHS = InitialRegexPaths
    /\ _headers = EndpointHeaders
    /\ phase = "serving"
    /\ regError = "none"
    /\ warnings = {}
    /\ lastNamed = [m \in Methods |-> [p \in Paths |-> "none"]]
    /\ resp = NoRequest
    /\ hdrCall = NoCall
    /\ threads = NoThreads
    /\ \E command \in BodyCommands, cl \in ContentLengths,
          te_chunked \in BOOLEAN, encoding \in Encodings, s \in Streams :
         body = [NoBody EXCEPT !.pc = "start", !.command = command,
                               !.cl = cl, !.te_chunked = te_chunked,
                               !.encoding = encoding, !.sent = s.sent,
                               !.framed = s.framed, !.chunks = s.chunks,
                               !.trailing = s.trailing, !.rfile = s.sent]

NextBody ==
    \/ ScanHeaders
    \/ \E k \in 0..MaxLen : ReadLength(k)
    \/ ReadChunk
    \/ Decompress

SpecBody == InitBody /\ [][NextBody]_vars

\* The worker thread of the connection keeps running, and a blocking read
\* returns once the client has sent its bytes and closed its side.
SpecBodyFair == SpecBody /\ WF_vars(NextBody)

(***************************************************************************)
(* Properties of body acquisition (SpecBodyFair)                           *)
(***************************************************************************)

NamesGzip == body.encoding \in {"gzip", "x-gzip"}

\* POST or PUT with a numeric Content-Length N >= 0.
LengthRequest ==
    /\ body.command \in {"POST", "PUT"}
    /\ body.cl.kind = "num"
    /\ body.cl.n >= 0

\* The payload never holds anything but leading bytes of the stream, never
\* more than N of them, no error is raised, and at the end it is the first
\* min(N, bytes sent) bytes.
PayloadIsPrefix ==
    /\ body.pc # "fault"
    /\ Len(body.req_payload) <= body.cl.n
    /\ body.req_payload = SubSeq(body.sent, 1, Len(body.req_payload))
    /\ body.pc = "done"
       => body.req_payload = SubSeq(body.sent, 1, Min(body.cl.n, Len(body.sent)))

\* C8 as stated: for POST or PUT with a numeric Content-Length N >= 0,
\* however the stream splits its data into reads, the read loop ends and
\* the payload is exactly the first min(N, bytes sent) bytes of the stream.
C8_LengthBodyIsPrefix ==
    /\ [](LengthRequest => PayloadIsPrefix)
    /\ (body.pc = "start" /\ LengthRequest) ~> (body.pc = "done")

\* The same for the requests that do not name gzip in Content-Encoding and,
\* when N = 0, are not Transfer-Encoding: chunked: for these it holds.
C8_LengthBodyIsPrefixUnencoded ==
    /\ []((/\ LengthRequest
           /\ ~NamesGzip
           /\ body.cl.n > 0 \/ ~body.te_chunked) => PayloadIsPrefix)
    /\ (/\ body.pc = "start"
        /\ LengthRequest
        /\ ~NamesGzip
        /\ body.cl.n > 0 \/ ~body.te_chunked) ~> (body.pc = "done")

\* Content-Length 2, three bytes sent: the payload is the first two, the
\* third is still in the stream.
C8_Witness ==
    /\ body.pc = "done"
    /\ body.command = "PUT"
    /\ body.cl = [kind |-> "num", n |-> 2]
    /\ body.sent = <<"z", "GZ", "z">>
    /\ body.req_payload = <<"z", "GZ">>
    /\ body.rfile = <<"z">>

\* POST or PUT with Transfer-Encoding: chunked, no positive Content-Length,
\* and a well-formed chunked body on the stream.
ChunkedRequest ==
    /\ body.command \in {"POST", "PUT"}
    /\ body.te_chunked
    /\ ~(body.cl.kind = "num" /\ body.cl.n > 0)
    /\ body.framed

\* No error is raised, the loop is left with the stream just behind the
\* first zero-size chunk, and the payload is the chunks' data in order.
PayloadIsChunks ==
    /\ body.pc # "fault"
    /\ body.pc \in {"decode", "done"} => body.rfile = body.trailing
    /\ body.pc = "done" => body.req_payload = Concat(body.chunks)

\* C9 as stated: for POST or PUT with Transfer-Encoding: chunked and no
\* positive Content-Length, the decoding loop ends at the first zero-size
\* chunk and the payload is the concatenation of the non-terminal chunks.
C9_ChunkedBodyIsConcatenation ==
    /\ [](ChunkedRequest => PayloadIsChunks)
    /\ (body.pc = "start" /\ ChunkedRequest) ~> (body.pc = "done")

\* C9 amended: the same, for requests that do not name gzip in
\* Content-Encoding.
C9_ChunkedBodyIsConcatenationUnencoded ==
    /\ []((ChunkedRequest /\ ~NamesGzip) => PayloadIsChunks)
    /\ (body.pc = "start" /\ ChunkedRequest /\ ~NamesGzip) ~> (body.pc = "done")

\* Content-Length: 0 with chunks of 2 and 1 bytes and a byte behind the
\* zero-size chunk.
C9_Witness ==
    /\ body.pc = "done"
    /\ body.cl = [kind |-> "num", n |-> 0]
    /\ body.chunks = <<ChunkData(2), ChunkData(1)>>
    /\ body.req_payload = <<"GZ", "LF", "GZ">>
    /\ body.trailing = <<"z">>
    /\ body.rfile = <<"z">>

\* C15: a request with a numeric Content-Length N >= 0, 0 included and with
\* or without Transfer-Encoding: chunked, never has its body chunk-decoded;
\* what is read for it is the leading bytes of the stream, at most N of them.
C15_NumericLengthExcludesChunked ==
    (body.cl.kind = "num" /\ body.cl.n >= 0)
    => /\ body.pc # "chunks"
       /\ body.pc = "decode"
          => /\ Len(body.req_payload) <= body.cl.n
             /\ body.req_payload = SubSeq(body.sent, 1, Len(body.req_payload))

\* The request b with its Content-Length header removed.
WithoutContentLength(b) == [b EXCEPT !.cl = [kind |-> "absent", n |-> 0]]

\* C16: a request that is neither POST nor PUT and has no numeric
\* Content-Length keeps an empty payload and nothing is read from its stream,
\* chunked or not; the body of a request is acquired only if it is POST or
\* PUT or has a numeric Content-Length; and a request with a Content-Length
\* that is no number goes, step by step, through what the same request
\* without the header goes through: the same payload, the same errors, none
\* of them raised by the header.
C16_BadLengthIsAbsent ==
    /\ []((body.command \notin {"POST", "PUT"} /\ body.cl.kind # "num")
          => /\ body.pc \in {"start", "done"}
             /\ body.req_payload = <<>>
             /\ body.rfile = body.sent)
    /\ [](body.pc \in {"length", "chunks", "decode"}
          => body.command \in {"POST", "PUT"} \/ body.cl.kind = "num")
    /\ [][body.cl.kind = "bad"
            => WithoutContentLength(body')
                  \in Successors(WithoutContentLength(body))]_vars

\* PUT with Content-Length: abc and a chunked body: the chunks were decoded.
C16_Witness ==
    /\ body.pc = "done"
    /\ body.command = "PUT"
    /\ body.cl.kind = "bad"
    /\ body.te_chunked
    /\ body.chunks = <<ChunkData(2)>>
    /\ body.req_payload = <<"GZ", "LF">>
    /\ body.encoding = "absent"

(***************************************************************************)
(* Concurrent requests (SpecConc): ThreadingHTTPServer handles each        *)
(* connection in a thread of its own, with a WebAppHttpHandler instance of *)
(* its own; the threads are interleaved at every step of                   *)
(* _build_and_send_response. Headers dicts are objects, a container holds  *)
(* a reference to one, and a write goes to whatever dict the reference     *)
(* names.                                                                  *)
(***************************************************************************)

\* The route tables while serving, as these class statements leave them:
\*   class HandlerA: METHODS = ['GET'];  PATHS = ['/a']
\*   class HandlerB: METHODS = ['POST']; PATHS = ['/a']
\*   class HandlerC: METHODS = ['GET'];  PATHS = ['/c']
ServingPaths ==
    [m \in Methods |->
        IF m = "GET"
        THEN [p \in {"/", "/a", "/c"} |->
                 IF p = "/" THEN None
                 ELSE IF p = "/a" THEN "HandlerA" ELSE "HandlerC"]
        ELSE IF m = "POST"
        THEN [p \in {"/", "/a"} |-> IF p = "/" THEN None ELSE "HandlerB"]
        ELSE [p \in {"/"} |-> None]]

\* Requests: to each handler, HEAD and OPTIONS to a handler's path, to the
\* sentinel, and to a path that is not bound.
ThreadRequests ==
    {<<"GET", "/a">>, <<"POST", "/a">>, <<"HEAD", "/a">>, <<"OPTIONS", "/a">>,
     <<"GET", "/c">>, <<"GET", "/">>, <<"HEAD", "/">>, <<"GET", UnboundPath>>}

Ref(t, slot) == [owner |-> t, slot |-> slot]

\* The dict a reference names.
Deref(ref) ==
    IF ref.owner = 0 THEN _headers ELSE threads[ref.owner].objs[ref.slot]

\* The dict that ref names becomes dict, and thread t becomes next.
StoreAndGo(t, ref, dict, next) ==
    IF ref.owner = 0
    THEN /\ _headers' = dict
         /\ threads' = [threads EXCEPT ![t] = next]
    ELSE /\ _headers' = _headers
         /\ threads' = [[threads EXCEPT ![t] = next]
                           EXCEPT ![ref.owner].objs[ref.slot] = dict]

ThreadUnchanged ==
    UNCHANGED <<PATHS, REGEX_PATHS, phase, regError, warnings, lastNamed, resp,
                hdrCall, body>>

\* A connection is accepted and its request line and headers are parsed; the
\* thread's previous request is over.
Accept(t, command, path) ==
    /\ phase = "serving"
    /\ threads[t].pc \in {"idle", "done", "fault"}
    /\ threads' = [threads EXCEPT ![t] =
                      [IdleThread EXCEPT !.pc = "dispatch", !.command = command,
                                         !.path = path]]
    /\ UNCHANGED _headers
    /\ ThreadUnchanged

\* Lines 131-157 up to the handler's construction: the loop raises on the
\* sentinel, or finds a handler class and evaluates RESP_OK() for it (a
\* container whose headers are a new dict, copied from Default._headers), or
\* builds the response itself (405, 204 with Allow, bare 200, 404).
Route(t) ==
    /\ threads[t].pc = "dispatch"
    /\ LET d == Dispatch(threads[t].command, threads[t].path) IN
       threads' =
         IF d.invoked # None
         THEN [threads EXCEPT ![t].pc = "construct",
                              ![t].h = d.invoked,
                              ![t].objs.base = _headers,
                              ![t].base = [status_code |-> 200,
                                           headers |-> Ref(t, "base"),
                                           body |-> ""]]
         ELSE IF d.error # "none"
         THEN [threads EXCEPT ![t].pc = "fault", ![t].error = d.error]
         ELSE [threads EXCEPT ![t].pc = "send",
                              ![t].objs.resp = d.pending_resp.headers,
                              ![t].pending_resp =
                                  [status_code |-> d.pending_resp.status_code,
                                   headers |-> Ref(t, "resp"),
                                   body |-> d.pending_resp.body]]
    /\ UNCHANGED _headers
    /\ ThreadUnchanged

\* A constructor whose copy shares the process-wide headers dict instead of
\* copying the base response's.
ConstructOnDefaults(t) ==
    /\ threads[t].pc = "construct"
    /\ threads' = [threads EXCEPT
                      ![t].response = [status_code |-> threads[t].base.status_code,
                                       headers |-> DefaultRef,
                                       body |-> threads[t].base.body],
                      ![t].pc = "handle"]
    /\ UNCHANGED _headers
    /\ ThreadUnchanged

\* WebPathHandler.__init__: self.response = response_init.copy(), a new
\* container whose headers are dict(<the base response's headers>).
Construct(t) ==
    /\ threads[t].pc = "construct"
    /\ threads' = [threads EXCEPT
                      ![t].objs.resp = Deref(threads[t].base.headers),
                      ![t].response = [status_code |-> threads[t].base.status_code,
                                       headers |-> Ref(t, "resp"),
                                       body |-> threads[t].base.body],
                      ![t].pc = "handle"]
    /\ UNCHANGED _headers
    /\ ThreadUnchanged

\* The container self.response as a value.
Current(t) ==
    [status_code |-> threads[t].response.status_code,
     headers |-> Deref(threads[t].response.headers),
     body |-> threads[t].response.body]

\* _handle, first statement: self.response.headers['Content-Type'] = ...,
\* a write into the dict the response refers to.
HandleHeaders(t) ==
    /\ threads[t].pc = "handle"
    /\ IF Handle(threads[t].h, Current(t)) = NoneResp
       THEN /\ threads' = [threads EXCEPT ![t].pc = "return"]
            /\ UNCHANGED _headers
       ELSE StoreAndGo(t, threads[t].response.headers,
                       Handle(threads[t].h, Current(t)).headers,
                       [threads[t] EXCEPT !.pc = "return"])
    /\ ThreadUnchanged

\* The rest of _handle (status, body) and the return of handle(): the
\* handler's response, or None.
HandleReturn(t) ==
    /\ threads[t].pc = "return"
    /\ LET r == Handle(threads[t].h, Current(t)) IN
       threads' =
         IF r = NoneResp
         THEN [threads EXCEPT ![t].pending_resp = NonePending, ![t].pc = "assert"]
         ELSE [threads EXCEPT
                  ![t].response = [@ EXCEPT !.status_code = r.status_code,
                                            !.body = r.body],
                  ![t].pending_resp = [threads[t].response EXCEPT
                                          !.status_code = r.status_code,
                                          !.body = r.body],
                  ![t].pc = "assert"]
    /\ UNCHANGED _headers
    /\ ThreadUnchanged

\* Without line 150: a None response falls through to lines 156-157 and
\* becomes the default 404.
AssertResponseSkipped(t) ==
    /\ threads[t].pc = "assert"
    /\ threads' =
         IF threads[t].pending_resp = NonePending
         THEN [threads EXCEPT ![t].objs.resp = _headers,
                              ![t].pending_resp = [status_code |-> 404,
                                                   headers |-> Ref(t, "resp"),
                                                   body |-> ""],
                              ![t].pc = "send"]
         ELSE [threads EXCEPT ![t].pc = "send"]
    /\ UNCHANGED _headers
    /\ ThreadUnchanged

\* Line 150: assert self.pending_resp is not None.
AssertResponse(t) ==
    /\ threads[t].pc = "assert"
    /\ threads' =
         IF threads[t].pending_resp = NonePending
         THEN [threads EXCEPT ![t].pc = "fault", ![t].error = "AssertionError"]
         ELSE [threads EXCEPT ![t].pc = "send"]
    /\ UNCHANGED _headers
    /\ ThreadUnchanged

\* What is written to the connection, piece by piece.
Written(ev, status_code, headers, bytes) ==
    [ev |-> ev, status_code |-> status_code, headers |-> headers, body |-> bytes]

\* Lines 101-104: the status line; Content-Length is put into the response's
\* headers if the body is not empty.
SendStatus(t) ==
    /\ threads[t].pc = "send"
    /\ LET p == threads[t].pending_resp IN
       StoreAndGo(t, p.headers,
                  IF Len(p.body) > 0
                  THEN DictSet(Deref(p.headers), "Content-Length",
                               ToString(Len(p.body)))
                  ELSE Deref(p.headers),
                  [threads[t] EXCEPT
                      !.pc = "headers",
                      !.wire = Append(@, Written("status", p.status_code,
                                                 <<>>, ""))])
    /\ ThreadUnchanged

\* Lines 113-115: every header of the response.
SendHeaders(t) ==
    /\ threads[t].pc = "headers"
    /\ threads' = [threads EXCEPT
                      ![t].wire = Append(@, Written("headers", 0,
                                         Deref(threads[t].pending_resp.headers),
                                         "")),
                      ![t].pc = "end"]
    /\ UNCHANGED _headers
    /\ ThreadUnchanged

\* Finish that writes the body whatever the request method is.
FinishWithBody(t) ==
    /\ threads[t].pc = "end"
    /\ LET p == threads[t].pending_resp IN
       threads' = [threads EXCEPT
                      ![t].wire =
                          (@ \o <<Written("end", 0, <<>>, "")>>)
                          \o (IF Len(p.body) > 0
                              THEN <<Written("body", 0, <<>>, p.body)>>
                              ELSE <<>>),
                      ![t].pc = "done"]
    /\ UNCHANGED _headers
    /\ ThreadUnchanged

\* Lines 121-124: the blank line, then the body unless the request is HEAD
\* or OPTIONS or the body is empty.
Finish(t) ==
    /\ threads[t].pc = "end"
    /\ LET p == threads[t].pending_resp IN
       threads' = [threads EXCEPT
                      ![t].wire =
                          (@ \o <<Written("end", 0, <<>>, "")>>)
                          \o (IF /\ threads[t].command \notin {"HEAD", "OPTIONS"}
                                 /\ Len(p.body) > 0
                              THEN <<Written("body", 0, <<>>, p.body)>>
                              ELSE <<>>),
                      ![t].pc = "done"]
    /\ UNCHANGED _headers
    /\ ThreadUnchanged

InitConc ==
    /\ PATHS = ServingPaths
    /\ REGEX_PATHS = InitialRegexPaths
    /\ _headers = EndpointHeaders
    /\ phase = "serving"
    /\ regError = "none"
    /\ warnings = {}
    /\ lastNamed = [m \in Methods |-> [p \in Paths |-> "none"]]
    /\ resp = NoRequest
    /\ hdrCall = NoCall
    /\ body = NoBody
    /\ threads = NoThreads

NextConc ==
    \E t \in Threads :
        \/ \E rq \in ThreadRequests : Accept(t, rq[1], rq[2])
        \/ Route(t)
        \/ Construct(t)
        \/ HandleHeaders(t)
        \/ HandleReturn(t)
        \/ AssertResponse(t)
        \/ SendStatus(t)
        \/ SendHeaders(t)
        \/ Finish(t)

SpecConc == InitConc /\ [][NextConc]_vars

(***************************************************************************)
(* Properties of concurrent requests (SpecConc)                            *)
(***************************************************************************)

\* The pieces thread t wrote, by kind.
Pieces(t, ev) == SelectSeq(threads[t].wire, LAMBDA w : w.ev = ev)

\* C12: under every interleaving, a thread's containers refer to headers
\* dicts of its own, the handler it constructs starts from status 200, the
\* process-wide default headers and an empty body, Default._headers never
\* changes, and what a request with a handler gets is what it gets when it is
\* handled alone.
C12_RequestsAreIsolated ==
    /\ _headers = EndpointHeaders
    /\ \A t \in Threads :
          LET th == threads[t] IN
          /\ th.base.headers \in {NoRef, Ref(t, "base")}
          /\ th.response.headers \in {NoRef, Ref(t, "resp")}
          /\ th.pending_resp.headers \in {NoRef, Ref(t, "resp")}
          /\ th.pc = "handle" => Current(t) = RESP_OK
          /\ (th.pc = "done" /\ th.h # None)
             => LET alone == SendPendingResponse(th.command,
                                                 Handle(th.h, RESP_OK))
                IN  /\ Pieces(t, "status")
                         = <<Written("status", alone.status_code, <<>>, "")>>
                    /\ Pieces(t, "headers")
                         = <<Written("headers", 0, alone.headers, "")>>
                    /\ Pieces(t, "body")
                         = IF alone.body = "" THEN <<>>
                           ELSE <<Written("body", 0, <<>>, alone.body)>>

\* HandlerA of thread 1 has written its Content-Type while thread 2 is about
\* to run HandlerB on a response that is still the defaults.
C12_Witness ==
    /\ threads[1].pc = "return"
    /\ threads[1].h = "HandlerA"
    /\ "Content-Type" \in DOMAIN Deref(threads[1].response.headers)
    /\ threads[2].pc = "handle"
    /\ threads[2].h = "HandlerB"
    /\ Deref(threads[2].response.headers) = EndpointHeaders

\* C17: a thread writes nothing before it serialises its response and then,
\* once each and in this order, the status line, the headers of the response
\* container, the blank line and the body; Content-Length is among the
\* headers exactly if the body is not empty and then is its length; the
\* body is written exactly if it is not empty and the request is neither
\* HEAD nor OPTIONS.
C17_ResponseWrittenInOrder ==
    \A t \in Threads :
        LET th == threads[t]
            p == th.pending_resp
            hdrs == Deref(p.headers)
            full == <<Written("status", p.status_code, <<>>, ""),
                      Written("headers", 0, hdrs, ""),
                      Written("end", 0, <<>>, "")>>
                    \o (IF Len(p.body) > 0 /\ th.command \notin {"HEAD", "OPTIONS"}
                        THEN <<Written("body", 0, <<>>, p.body)>> ELSE <<>>)
        IN  /\ th.pc \notin {"headers", "end", "done"} => th.wire = <<>>
            /\ th.pc = "headers" => th.wire = SubSeq(full, 1, 1)
            /\ th.pc = "end" => th.wire = SubSeq(full, 1, 2)
            /\ th.pc = "done" => th.wire = full
            /\ th.pc \in {"headers", "end", "done"}
               => /\ ("Content-Length" \in DOMAIN hdrs) <=> (Len(p.body) > 0)
                  /\ Len(p.body) > 0
                     => hdrs["Content-Length"] = ToString(Len(p.body))

\* HEAD to HandlerA's path: Content-Length: 12 was sent and no body, while
\* the other thread's POST got its body.
C17_Witness ==
    /\ threads[1].pc = "done"
    /\ threads[1].command = "HEAD"
    /\ threads[1].pending_resp.body = "Hello world!"
    /\ Len(threads[1].wire) = 3
    /\ threads[1].wire[2].headers["Content-Length"] = "12"
    /\ threads[2].pc = "done"
    /\ threads[2].command = "POST"
    /\ Len(threads[2].wire) = 4
    /\ threads[2].wire[4].body = "{}"

\* C19: a request matched to a handler whose lifecycle returns None ends in
\* an AssertionError with nothing written to its connection; it is never
\* given the default 404 or any other response.
C19_NoneResponseIsFatal ==
    \A t \in Threads :
        LET th == threads[t] IN
        (/\ th.h # None
         /\ Handle(th.h, RESP_OK) = NoneResp)
        => /\ th.wire = <<>>
           /\ th.pc \in {"construct", "handle", "return", "assert", "fault"}
           /\ th.pc = "fault" => th.error = "AssertionError"
           /\ th.pending_resp = NonePending

\* The request to HandlerC has failed; the other thread's request was
\* answered.
C19_Witness ==
    /\ threads[1].pc = "fault"
    /\ threads[1].h = "HandlerC"
    /\ threads[1].error = "AssertionError"
    /\ threads[1].wire = <<>>
    /\ threads[2].pc = "done"

====
